---- MODULE Spec2Model ----
(***************************************************************************)
(* A model of src/compiler/debug.ts (namespace ts.Debug): the leveled      *)
(* logger, the assertions, formatEnum, createDeprecation and filterStack.  *)
(*                                                                         *)
(* Four specifications share the variables:                                *)
(*   SpecDebug  the logger, the assertions and one deprecation closure     *)
(*   SpecEnum   formatEnum applied to bounded enumerations                 *)
(*   SpecStack  filterStack applied to bounded stack traces                *)
(*   SpecFrame  parseStackFrame, then formatStackFrame, on one line        *)
(* Each one holds the variables of the others at their initial values.     *)
(***************************************************************************)
EXTENDS Integers, Sequences, FiniteSets, TLC

VARIABLES
    \* ---- Debug: configuration (debug.ts:23-26)
    currentAssertionLevel,   \* Debug.currentAssertionLevel
    currentLogLevel,         \* Debug.currentLogLevel
    loggingHost,             \* TRUE when Debug.loggingHost is set
    \* ---- Debug: bindings made once, when the namespace is initialised
    assertNode,              \* "noop" or "assert" (debug.ts:234-240)
    assertEachNode,          \* "noop" or "assert" (debug.ts:226-232)
    \* ---- Debug: one closure returned by createDeprecation
    options,                 \* its DeprecationOptions
    hasWrittenDeprecation,   \* its captured flag (debug.ts:323)
    \* ---- Debug: what has been observed so far
    calls,                   \* invocations made so far (all operations)
    hostLog,                 \* messages the sink received, per severity
    depCalls,                \* invocations of the deprecation closure
    depFailures,             \* how many of them threw
    depMessages,             \* the messages they threw
    warnCalls,               \* log.warn calls made by the closure
    depDelivered,            \* closure warnings that reached the sink
    liveRepeat,              \* the closure was invoked again, after its
                             \* first invocation, while the sink would be
                             \* handed a Warning
    wrappedCalls,            \* invocations of the wrapped function
    delegations,             \* calls of the original function behind the wrapper
    falseAsserts,            \* assert(false)/assertEqual(a, b), a # b, calls
    assertFailures,          \* how many of them threw
    disabledFailures,        \* ... while the level was below Normal
    nodeCalls,               \* assertNode/assertEachNode calls made with a
                             \* failing test while the level is >= Normal
    testEvaluations,         \* evaluations of the test predicate
    nodeFailures,            \* failures thrown by assertNode/assertEachNode
    lastError,               \* message of the last error thrown ("" if none)
    \* ---- formatEnum
    enumObject,              \* the enumeration: <<value, ...>>, declaration order
    enumValue,               \* the value to format
    isFlags,                 \* the isFlags argument
    filterEnum,              \* names the filterEnum callback rejects
    enumResult,              \* what formatEnum returned (NotCalled before)
    \* ---- filterStack
    stack,                   \* the input trace, a sequence of lines
    stackOptions,            \* the FilterStackOptions
    filtered,                \* filterStack(stack, options) (NotCalled before)
    refiltered,              \* filterStack(filtered, options) (NotCalled before)
    origins,                 \* per line of filtered: the input line it stems
                             \* from (its index), 0 for a summary line
    classes,                 \* per input line: "text", "kept" or "excluded",
                             \* as the loop classified it
    frameCounts,             \* per input line: frameCount when the loop
                             \* reached the line
    \* ---- parseStackFrame and formatStackFrame on one line
    frameLine,               \* the line handed to parseStackFrame
    parsedFrame,             \* what it returned (NotCalled before)
    serialized,              \* formatStackFrame of that frame (NotCalled before)
    pc                       \* which specification runs, and how far it is

debugVars == <<currentAssertionLevel, currentLogLevel, loggingHost, assertNode,
               assertEachNode, options, hasWrittenDeprecation, calls, hostLog,
               depCalls, depFailures, depMessages, warnCalls, depDelivered,
               liveRepeat, wrappedCalls, delegations, falseAsserts, assertFailures,
               disabledFailures, nodeCalls, testEvaluations, nodeFailures, lastError>>
enumVars == <<enumObject, enumValue, isFlags, filterEnum, enumResult>>
stackVars == <<stack, stackOptions, filtered, refiltered, origins, classes,
               frameCounts>>
frameVars == <<frameLine, parsedFrame, serialized>>
vars == <<debugVars, enumVars, stackVars, frameVars, pc>>

NotCalled == "not called"

(***************************************************************************)
(* Bounds of the model.                                                    *)
(***************************************************************************)
MaxCalls == 3

(***************************************************************************)
(* LogLevel (debug.ts:3-9) and AssertionLevel.                             *)
(***************************************************************************)
LogLevelOff == 0
LogLevelError == 1
LogLevelWarning == 2
LogLevelInfo == 3
LogLevelVerbose == 4
LogLevel == LogLevelOff..LogLevelVerbose

AssertionLevelNone == 0
AssertionLevelNormal == 1
AssertionLevelAggressive == 2
AssertionLevelVeryAggressive == 3
AssertionLevel == AssertionLevelNone..AssertionLevelVeryAggressive

(***************************************************************************)
(* The logger.                                                             *)
(***************************************************************************)
shouldLog(level) == currentLogLevel <= level

\* logMessage(level, s): TRUE when the message is handed to loggingHost.log.
logMessage(level) == loggingHost /\ shouldLog(level)

\* The sink's record after logMessage(level, s).
hostLogAfter(level) ==
    IF logMessage(level) THEN [hostLog EXCEPT ![level] = @ + 1] ELSE hostLog

(***************************************************************************)
(* The assertions. An operation that throws yields the error's message,    *)
(* one that returns yields NoError.                                        *)
(***************************************************************************)
NoError == ""

shouldAssert(level) == currentAssertionLevel >= level

fail(message) ==
    IF message # "" THEN "Debug Failure. " \o message ELSE "Debug Failure."

assert_gated(expression, message) ==
    IF shouldAssert(AssertionLevelNormal) /\ ~expression
    THEN fail(IF message # "" THEN "False expression: " \o message
                              ELSE "False expression.")
    ELSE NoError

assert(expression, message) ==
    IF ~expression
    THEN fail(IF message # "" THEN "False expression: " \o message
                              ELSE "False expression.")
    ELSE NoError

\* `Expected ${a} === ${b}. ${message}`, the values shown by name.
assertEqual(a, b, msg) ==
    IF a # b
    THEN fail("Expected " \o a \o " === " \o b \o ". " \o msg)
    ELSE NoError

\* The value bound to assertNode and assertEachNode when the namespace is
\* initialised: the checking function or noop.
bindNodeAssertion ==
    IF shouldAssert(AssertionLevelNormal) THEN "assert" ELSE "noop"

\* A call of a bound node assertion with a test returning testResult:
\* whether the test is evaluated, and the error thrown.
nodeAssertion_recheck(binding, testResult) ==
    IF shouldAssert(AssertionLevelNormal)
    THEN [evaluated |-> TRUE, error |-> assert(testResult, "Unexpected node.")]
    ELSE [evaluated |-> FALSE, error |-> NoError]

nodeAssertion(binding, testResult) ==
    IF binding = "assert"
    THEN [evaluated |-> TRUE, error |-> assert(testResult, "Unexpected node.")]
    ELSE [evaluated |-> FALSE, error |-> NoError]

(***************************************************************************)
(* createDeprecation.                                                      *)
(***************************************************************************)
DeprecationName == "f"

\* The options of the closure: with or without error, and with both or
\* neither of since and until.
DeprecationOptions ==
    {[error |-> error, since |-> versions[1], until |-> versions[2]] :
        error \in BOOLEAN, versions \in {<<"", "">>, <<"4.0", "5.0">>}}

\* formattedMessage, built once by createDeprecation (options.message unset).
formattedMessage(name, o) ==
    (IF o.error THEN "DeprecationError: " ELSE "DeprecationWarning: ")
    \o "'" \o name \o "' "
    \o (IF o.since # "" THEN "has been deprecated since " \o o.since
                        ELSE "is deprecated")
    \o (IF o.error THEN " and can no longer be used."
        ELSE IF o.until # ""
             THEN " and will no longer be usable after " \o o.until \o "."
             ELSE ".")

\* handleDeprecation(): the error thrown, whether log.warn is called, and
\* the flag afterwards.
handleDeprecation_everyCall ==
    IF options.error
    THEN [error |-> fail(formattedMessage(DeprecationName, options)),
          warns |-> FALSE, written |-> hasWrittenDeprecation]
    ELSE [error |-> NoError, warns |-> TRUE, written |-> TRUE]

handleDeprecation_errorOnce ==
    IF options.error /\ ~hasWrittenDeprecation
    THEN [error |-> fail(formattedMessage(DeprecationName, options)),
          warns |-> FALSE, written |-> TRUE]
    ELSE IF hasWrittenDeprecation
    THEN [error |-> NoError, warns |-> FALSE, written |-> TRUE]
    ELSE [error |-> NoError, warns |-> TRUE, written |-> TRUE]

handleDeprecation_flagWhenLogged ==
    IF options.error
    THEN [error |-> fail(formattedMessage(DeprecationName, options)),
          warns |-> FALSE, written |-> hasWrittenDeprecation]
    ELSE IF hasWrittenDeprecation
    THEN [error |-> NoError, warns |-> FALSE, written |-> TRUE]
    ELSE [error |-> NoError, warns |-> TRUE,
          written |-> logMessage(LogLevelWarning)]

handleDeprecation ==
    IF options.error
    THEN [error |-> fail(formattedMessage(DeprecationName, options)),
          warns |-> FALSE, written |-> hasWrittenDeprecation]
    ELSE IF hasWrittenDeprecation
    THEN [error |-> NoError, warns |-> FALSE, written |-> TRUE]
    ELSE [error |-> NoError, warns |-> TRUE, written |-> TRUE]

(***************************************************************************)
(* SpecDebug: the state after the namespace is initialised, and one action *)
(* per operation.                                                          *)
(***************************************************************************)
EnumIdle ==
    /\ enumObject = << >>
    /\ enumValue = 0
    /\ isFlags = FALSE
    /\ filterEnum = {}
    /\ enumResult = NotCalled

StackIdle ==
    /\ stack = << >>
    /\ stackOptions = << >>
    /\ filtered = NotCalled
    /\ refiltered = NotCalled
    /\ origins = << >>
    /\ classes = << >>
    /\ frameCounts = << >>

FrameIdle ==
    /\ frameLine = << >>
    /\ parsedFrame = NotCalled
    /\ serialized = NotCalled

DebugInitial ==
    /\ currentAssertionLevel = AssertionLevelNone
    /\ currentLogLevel = LogLevelWarning
    /\ loggingHost = FALSE
    /\ assertEachNode = bindNodeAssertion
    /\ assertNode = bindNodeAssertion
    /\ hasWrittenDeprecation = FALSE
    /\ calls = 0
    /\ hostLog = [l \in LogLevel |-> 0]
    /\ depCalls = 0
    /\ depFailures = 0
    /\ depMessages = {}
    /\ warnCalls = 0
    /\ depDelivered = 0
    /\ liveRepeat = FALSE
    /\ wrappedCalls = 0
    /\ delegations = 0
    /\ falseAsserts = 0
    /\ assertFailures = 0
    /\ disabledFailures = 0
    /\ nodeCalls = 0
    /\ testEvaluations = 0
    /\ nodeFailures = 0
    /\ lastError = NoError

InitDebug ==
    /\ DebugInitial
    /\ options \in DeprecationOptions
    /\ EnumIdle
    /\ StackIdle
    /\ FrameIdle
    /\ pc = "debug"

configVars == <<currentAssertionLevel, currentLogLevel, loggingHost,
                assertNode, assertEachNode, options>>
deprecationVars == <<hasWrittenDeprecation, depCalls, depFailures, depMessages,
                     warnCalls, depDelivered, liveRepeat, wrappedCalls,
                     delegations>>
assertionVars == <<falseAsserts, assertFailures, disabledFailures, nodeCalls, testEvaluations,
                   nodeFailures>>
otherVars == <<enumVars, stackVars, frameVars, pc>>

\* Debug.currentAssertionLevel = level (an exported let).
SetAssertionLevel(level) ==
    /\ pc = "debug"
    /\ currentAssertionLevel' = level
    /\ UNCHANGED <<currentLogLevel, loggingHost, assertNode, assertEachNode,
                   options, calls, hostLog, lastError, deprecationVars,
                   assertionVars, otherVars>>

\* Debug.currentLogLevel = level.
SetLogLevel(level) ==
    /\ pc = "debug"
    /\ currentLogLevel' = level
    /\ UNCHANGED <<currentAssertionLevel, loggingHost, assertNode,
                   assertEachNode, options, calls, hostLog, lastError,
                   deprecationVars, assertionVars, otherVars>>

\* Debug.loggingHost = host, or undefined.
SetLoggingHost(present) ==
    /\ pc = "debug"
    /\ loggingHost' = present
    /\ UNCHANGED <<currentAssertionLevel, currentLogLevel, assertNode,
                   assertEachNode, options, calls, hostLog, lastError,
                   deprecationVars, assertionVars, otherVars>>

\* log.error, log.warn, log.log (and Debug.log) and log.trace.
Log(level) ==
    /\ pc = "debug"
    /\ calls < MaxCalls
    /\ calls' = calls + 1
    /\ hostLog' = hostLogAfter(level)
    /\ UNCHANGED <<configVars, lastError, deprecationVars, assertionVars,
                   otherVars>>

\* Debug.assert(expression, "m").
CallAssert(expression) ==
    /\ pc = "debug"
    /\ calls < MaxCalls
    /\ calls' = calls + 1
    /\ LET e == assert(expression, "m") IN
        /\ falseAsserts' = falseAsserts + (IF expression THEN 0 ELSE 1)
        /\ assertFailures' = assertFailures + (IF e # NoError THEN 1 ELSE 0)
        /\ disabledFailures' = disabledFailures
                + (IF e # NoError /\ ~shouldAssert(AssertionLevelNormal)
                   THEN 1 ELSE 0)
        /\ lastError' = (IF e # NoError THEN e ELSE lastError)
    /\ UNCHANGED <<configVars, hostLog, deprecationVars, nodeCalls,
                   testEvaluations, nodeFailures, otherVars>>

\* Debug.assertEqual(a, b).
CallAssertEqual(a, b) ==
    /\ pc = "debug"
    /\ calls < MaxCalls
    /\ calls' = calls + 1
    /\ LET e == assertEqual(a, b, "") IN
        /\ falseAsserts' = falseAsserts + (IF a = b THEN 0 ELSE 1)
        /\ assertFailures' = assertFailures + (IF e # NoError THEN 1 ELSE 0)
        /\ disabledFailures' = disabledFailures
                + (IF e # NoError /\ ~shouldAssert(AssertionLevelNormal)
                   THEN 1 ELSE 0)
        /\ lastError' = (IF e # NoError THEN e ELSE lastError)
    /\ UNCHANGED <<configVars, hostLog, deprecationVars, nodeCalls,
                   testEvaluations, nodeFailures, otherVars>>

\* A call of a node assertion through its binding, the test returning
\* testResult for the node (for every node of the array).
NodeAssertionCall(binding, testResult) ==
    /\ pc = "debug"
    /\ calls < MaxCalls
    /\ calls' = calls + 1
    /\ LET r == nodeAssertion(binding, testResult) IN
        /\ nodeCalls' = nodeCalls
                + (IF ~testResult /\ shouldAssert(AssertionLevelNormal)
                   THEN 1 ELSE 0)
        /\ testEvaluations' = testEvaluations + (IF r.evaluated THEN 1 ELSE 0)
        /\ nodeFailures' = nodeFailures + (IF r.error # NoError THEN 1 ELSE 0)
        /\ lastError' = (IF r.error # NoError THEN r.error ELSE lastError)
    /\ UNCHANGED <<configVars, hostLog, deprecationVars, falseAsserts,
                   assertFailures, disabledFailures, otherVars>>

\* Debug.assertNode(node, test).
CallAssertNode(testResult) == NodeAssertionCall(assertNode, testResult)

\* Debug.assertEachNode(nodes, test).
CallAssertEachNode(testResult) == NodeAssertionCall(assertEachNode, testResult)

\* What one run of handleDeprecation leaves behind; delegated: the wrapper
\* went on to call the original function.
DeprecationRun(wrapped) ==
    LET d == handleDeprecation IN
    /\ depCalls' = depCalls + 1
    /\ hasWrittenDeprecation' = d.written
    /\ depFailures' = depFailures + (IF d.error # NoError THEN 1 ELSE 0)
    /\ depMessages' = (IF d.error # NoError THEN depMessages \cup {d.error}
                                            ELSE depMessages)
    /\ lastError' = (IF d.error # NoError THEN d.error ELSE lastError)
    /\ warnCalls' = warnCalls + (IF d.warns THEN 1 ELSE 0)
    /\ hostLog' = (IF d.warns THEN hostLogAfter(LogLevelWarning) ELSE hostLog)
    /\ depDelivered' = depDelivered
            + (IF d.warns /\ logMessage(LogLevelWarning) THEN 1 ELSE 0)
    /\ liveRepeat' = (liveRepeat
                        \/ (depCalls >= 1 /\ logMessage(LogLevelWarning)))
    /\ wrappedCalls' = wrappedCalls + (IF wrapped THEN 1 ELSE 0)
    /\ delegations' = delegations
            + (IF wrapped /\ d.error = NoError THEN 1 ELSE 0)

\* The closure returned by createDeprecation, called directly.
CallDeprecation ==
    /\ pc = "debug"
    /\ calls < MaxCalls
    /\ calls' = calls + 1
    /\ DeprecationRun(FALSE)
    /\ UNCHANGED <<configVars, assertionVars, otherVars>>

\* The function returned by wrapFunction(deprecation, func), as built by
\* deprecateFunction and by wrapAccessor: deprecation(), then func.
CallWrapped ==
    /\ pc = "debug"
    /\ calls < MaxCalls
    /\ calls' = calls + 1
    /\ DeprecationRun(TRUE)
    /\ UNCHANGED <<configVars, assertionVars, otherVars>>

NextDebug ==
    \/ \E level \in AssertionLevel : SetAssertionLevel(level)
    \/ \E level \in LogLevel : SetLogLevel(level)
    \/ \E present \in BOOLEAN : SetLoggingHost(present)
    \/ \E level \in LogLevel \ {LogLevelOff} : Log(level)
    \/ \E expression \in BOOLEAN : CallAssert(expression)
    \/ \E a, b \in {"1", "2"} : CallAssertEqual(a, b)
    \/ \E testResult \in BOOLEAN : CallAssertNode(testResult)
    \/ \E testResult \in BOOLEAN : CallAssertEachNode(testResult)
    \/ CallDeprecation
    \/ CallWrapped

SpecDebug == InitDebug /\ [][NextDebug]_vars

(***************************************************************************)
(* Claims about createDeprecation and the assertions, under SpecDebug.     *)
(***************************************************************************)

\* C5: a closure created without the error option calls log.warn exactly
\* once over any number N >= 1 of invocations, on the first of them, and
\* its flag is set from then on.
C5_WarnsExactlyOnce ==
    ~options.error =>
        /\ depCalls = 0 => (warnCalls = 0 /\ ~hasWrittenDeprecation)
        /\ depCalls >= 1 => (warnCalls = 1 /\ hasWrittenDeprecation)
        /\ depFailures = 0

C5_Witness == ~options.error /\ depCalls >= 2 /\ warnCalls = 1

\* C6: a closure created with the error option throws on every invocation,
\* always the same message, never sets its flag, never calls the logger,
\* and the function behind a wrapper is never reached.
C6_ErrorFailsEveryCall ==
    options.error =>
        /\ depFailures = depCalls
        /\ depMessages \subseteq {fail(formattedMessage(DeprecationName, options))}
        /\ ~hasWrittenDeprecation
        /\ warnCalls = 0
        /\ depDelivered = 0
        /\ delegations = 0

C6_Witness ==
    options.error /\ depCalls >= 2 /\ wrappedCalls >= 1 /\ depFailures = depCalls

\* C7: assertNode and assertEachNode are bound to noop when the namespace
\* is initialised (the level is None then), and stay so: whatever the level
\* is set to later, a call with a failing test neither evaluates the test
\* nor throws.
C7_NodeAssertionsStayNoop ==
    /\ assertNode = "noop"
    /\ assertEachNode = "noop"
    /\ testEvaluations = 0
    /\ nodeFailures = 0

C7_Witness ==
    shouldAssert(AssertionLevelNormal) /\ nodeCalls >= 1 /\ nodeFailures = 0

\* C8 as stated: while the level is below Normal, assert(false, m) and
\* assertEqual(a, b) with a # b throw nothing.
C8_AssertGatedByLevel == disabledFailures = 0

\* C8, amended: assert and assertEqual do not consult the level; every
\* assert(false, m) and every assertEqual(a, b) with a # b throws, also
\* while the level is below Normal.
C8_AssertNotGated == assertFailures = falseAsserts

C8_Witness ==
    /\ ~shouldAssert(AssertionLevelNormal)
    /\ disabledFailures >= 1
    /\ assertFailures = falseAsserts

\* C11: while the threshold is Off, no logging call hands a message to the
\* sink.
C11_OffForwardsNothing ==
    [][currentLogLevel = LogLevelOff => hostLog' = hostLog]_vars

\* C14: a closure created without the error option sets its flag on its
\* first invocation whether or not the warning reaches the sink; when it
\* did not reach it then, it never does, whatever sink is registered,
\* whatever the threshold is set to and however often the closure is
\* invoked afterwards.
C14_UndeliveredWarningIsLost ==
    [][(~options.error /\ depCalls >= 1 /\ depDelivered = 0)
          => (hasWrittenDeprecation /\ depDelivered' = 0)]_vars

C14_Witness ==
    /\ ~options.error
    /\ depDelivered = 0
    /\ liveRepeat
    /\ hasWrittenDeprecation

(***************************************************************************)
(* formatEnum. An enumeration object is the sequence of its numeric        *)
(* members' values in declaration order, the i-th member named             *)
(* EnumNames[i]; a result is either names joined by "|" (kept as the       *)
(* sequence of names, left to right) or a plain text.                      *)
(***************************************************************************)
MaxMembers == 3

EnumNames == <<"A", "B", "C", "D", "E">>
EnumValues == 0..7

Joined(names) == [kind |-> "names", names |-> names]
Text(t) == [kind |-> "text", text |-> t]

\* a & b on non-negative integers.
RECURSIVE BitAnd(_, _)
BitAnd(a, b) ==
    IF a = 0 \/ b = 0 THEN 0
    ELSE (a % 2) * (b % 2) + 2 * BitAnd(a \div 2, b \div 2)

\* a | b on non-negative integers.
BitOr(a, b) == a + b - BitAnd(a, b)

\* a & ~b on non-negative integers.
BitClear(a, b) == a - BitAnd(a, b)

\* stableSort(result, (x, y) => compareValues(x[0], y[0])): each member is
\* placed after the members already placed whose value is not larger.
RECURSIVE stableSort(_)
stableSort(members) ==
    IF members = << >> THEN << >>
    ELSE LET front == stableSort(SubSeq(members, 1, Len(members) - 1))
             x == members[Len(members)]
             before == SelectSeq(front, LAMBDA y : y[1] <= x[1])
             after == SelectSeq(front, LAMBDA y : y[1] > x[1])
         IN before \o <<x>> \o after

getEnumMembers(e) == stableSort([i \in 1..Len(e) |-> <<e[i], EnumNames[i]>>])

\* The test of the flags loop (debug.ts:157).
flagMatches(remainingFlags, value, name, rejected) ==
    name \notin rejected /\ value # 0 /\ BitAnd(remainingFlags, value) = value

\* result = `${enumName}${result ? "|" : ""}${result}` (debug.ts:159).
prependName_append(name, result) == result \o <<name>>

prependName(name, result) == <<name>> \o result

\* The index the flags loop starts at (debug.ts:155), 1-based.
firstScanned_skipLast(members) == Len(members) - 1

firstScanned(members) == Len(members)

\* The flags loop from index i down to 1, or until nothing remains.
RECURSIVE scanFlags(_, _, _, _, _)
scanFlags(members, i, remainingFlags, result, rejected) ==
    IF i < 1 \/ remainingFlags = 0
    THEN [remainingFlags |-> remainingFlags, result |-> result]
    ELSE IF flagMatches(remainingFlags, members[i][1], members[i][2], rejected)
    THEN scanFlags(members, i - 1, BitClear(remainingFlags, members[i][1]),
                   prependName(members[i][2], result), rejected)
    ELSE scanFlags(members, i - 1, remainingFlags, result, rejected)

flagsScan(value, e, rejected) ==
    LET members == getEnumMembers(e)
    IN scanFlags(members, firstScanned(members), value, << >>, rejected)

\* What formatEnum returns after an unfinished flags scan (debug.ts:173).
afterFlags_partial(value, scan) ==
    IF scan.result # << >> THEN Joined(scan.result) ELSE Text(ToString(value))

afterFlags(value, scan) == Text(ToString(value))

formatEnum(value, e, flags, rejected) ==
    LET members == getEnumMembers(e)
        zeroMembers == SelectSeq(members, LAMBDA m : m[1] = 0)
        equalMembers == SelectSeq(members, LAMBDA m : m[1] = value)
        scan == flagsScan(value, e, rejected)
    IN IF value = 0
       THEN (IF Len(zeroMembers) > 0 THEN Joined(<<zeroMembers[1][2]>>)
                                     ELSE Text("0"))
       ELSE IF flags
       THEN (IF scan.remainingFlags = 0 THEN Joined(scan.result)
                                        ELSE afterFlags(value, scan))
       ELSE (IF Len(equalMembers) > 0 THEN Joined(<<equalMembers[1][2]>>)
                                      ELSE Text(ToString(value)))

(***************************************************************************)
(* SpecEnum: formatEnum applied once to a bounded enumeration and value.   *)
(***************************************************************************)
EnumObjects == UNION {[1..n -> EnumValues] : n \in 0..MaxMembers}

DebugIdle ==
    /\ DebugInitial
    /\ options = [error |-> FALSE, since |-> "", until |-> ""]

InitEnum ==
    /\ enumObject \in EnumObjects
    /\ enumValue \in EnumValues
    /\ isFlags \in BOOLEAN
    /\ filterEnum \in {{}, {"B"}}
    /\ enumResult = NotCalled
    /\ DebugIdle
    /\ StackIdle
    /\ FrameIdle
    /\ pc = "enum"

\* formatEnum(enumValue, enumObject, isFlags, filterEnum).
FormatEnum ==
    /\ pc = "enum"
    /\ enumResult' = formatEnum(enumValue, enumObject, isFlags, filterEnum)
    /\ pc' = "enum done"
    /\ UNCHANGED <<debugVars, enumObject, enumValue, isFlags, filterEnum,
                   stackVars, frameVars>>

NextEnum == FormatEnum

SpecEnum == InitEnum /\ [][NextEnum]_vars

(***************************************************************************)
(* Claims about formatEnum, under SpecEnum.                                *)
(***************************************************************************)
EnumIndices == 1..Len(enumObject)

\* The value of the member named name.
ValueOfName(name) ==
    enumObject[CHOOSE i \in EnumIndices : EnumNames[i] = name]

RECURSIVE OrOfMembers(_)
OrOfMembers(S) ==
    IF S = {} THEN 0
    ELSE LET i == CHOOSE j \in S : TRUE
         IN BitOr(enumObject[i], OrOfMembers(S \ {i}))

\* The sets of members a value can be built from: N >= 1 members with
\* distinct non-zero values whose bitwise OR is the value.
BuiltFrom(S) ==
    /\ S # {}
    /\ \A i \in S : enumObject[i] # 0
    /\ \A i, j \in S : i # j => enumObject[i] # enumObject[j]
    /\ OrOfMembers(S) = enumValue

FlagsDone == pc = "enum done" /\ isFlags /\ enumValue # 0

NamesDone == FlagsDone /\ enumResult.kind = "names"

\* C2 as stated: a flags result of two or more names lists them in
\* descending order of member value.
C2_DescendingOrder ==
    (NamesDone /\ Len(enumResult.names) >= 2) =>
        \A k \in 1..(Len(enumResult.names) - 1) :
            ValueOfName(enumResult.names[k]) > ValueOfName(enumResult.names[k + 1])

\* C2, amended: a flags result of two or more names lists them in
\* ascending order of member value, smallest flag first, largest last.
C2_AscendingOrder ==
    (NamesDone /\ Len(enumResult.names) >= 2) =>
        \A k \in 1..(Len(enumResult.names) - 1) :
            ValueOfName(enumResult.names[k]) < ValueOfName(enumResult.names[k + 1])

C2_Witness ==
    /\ NamesDone
    /\ Len(enumResult.names) >= 3
    /\ ValueOfName(enumResult.names[1]) < ValueOfName(enumResult.names[3])

NamesOf(S) == {EnumNames[i] : i \in S}

ExactlyTheNamesOf(S) ==
    /\ enumResult.kind = "names"
    /\ Len(enumResult.names) = Cardinality(S)
    /\ {enumResult.names[k] : k \in 1..Len(enumResult.names)} = NamesOf(S)

\* C3 as stated: whatever members the enumeration declares, a value built
\* from N members with distinct non-zero values formats to exactly the
\* names of those N members.
C3_RoundTripAnyEnum ==
    (FlagsDone /\ filterEnum = {}) =>
        \A S \in SUBSET EnumIndices : BuiltFrom(S) => ExactlyTheNamesOf(S)

\* No two members with non-zero values share a bit.
DisjointFlags ==
    \A i, j \in EnumIndices :
        (i # j /\ enumObject[i] # 0 /\ enumObject[j] # 0)
            => BitAnd(enumObject[i], enumObject[j]) = 0

\* C3, amended: when no two non-zero members of the enumeration share a
\* bit, a value built from N members formats to exactly their N names.
C3_RoundTripDisjointFlags ==
    (FlagsDone /\ filterEnum = {} /\ DisjointFlags) =>
        \A S \in SUBSET EnumIndices : BuiltFrom(S) => ExactlyTheNamesOf(S)

C3_Witness ==
    /\ FlagsDone /\ filterEnum = {} /\ DisjointFlags
    /\ \E S \in SUBSET EnumIndices :
        Cardinality(S) >= 2 /\ BuiltFrom(S) /\ ExactlyTheNamesOf(S)

\* C4: when the flags scan ends with bits of the value unmatched, the
\* result is the decimal text of the original value, whatever members the
\* scan consumed.
C4_AllOrNothing ==
    (FlagsDone /\ flagsScan(enumValue, enumObject, filterEnum).remainingFlags # 0)
        => enumResult = Text(ToString(enumValue))

C4_Witness ==
    /\ FlagsDone
    /\ flagsScan(enumValue, enumObject, filterEnum).remainingFlags # 0
    /\ flagsScan(enumValue, enumObject, filterEnum).result # << >>
    /\ enumResult = Text(ToString(enumValue))

(***************************************************************************)
(* Stack traces. A line is kept by its parts, as the regular expressions   *)
(* of debug.ts:467-469 and 500 take it apart:                              *)
(*   kind "text"  a line that does not start with "    at "                *)
(*   kind "call"  "    at {async }{new }{type.}{fn}{ [as method]} ({loc})" *)
(*   kind "bare"  "    at {loc}"                                           *)
(* and a location as                                                       *)
(*   kind "file"  "{file}{:line{:column}}", line and column 1-based        *)
(*   kind "eval"  "eval at {inner}", inner being a line again              *)
(*   kind "other" a text fileLocationRegExp rejects                        *)
(* An absent number is << >>, a present one <<n>>; an absent text is "".   *)
(* Two lines are the same text exactly when their parts are equal, for the *)
(* lines used here: no part holds " (", " [", ":" or a line break, and an  *)
(* eval location's inner line is never of kind "call".                     *)
(***************************************************************************)
NoLocation ==
    [kind |-> "none", file |-> "", line |-> << >>, column |-> << >>,
     inner |-> << >>]

FileLocation(file, line, column) ==
    [kind |-> "file", file |-> file, line |-> line, column |-> column,
     inner |-> << >>]

EvalLocation(inner) ==
    [kind |-> "eval", file |-> "", line |-> << >>, column |-> << >>,
     inner |-> <<inner>>]

OtherLocation(text) ==
    [kind |-> "other", file |-> text, line |-> << >>, column |-> << >>,
     inner |-> << >>]

TextLine(text) ==
    [kind |-> "text", text |-> text, async |-> FALSE, new |-> FALSE,
     type |-> "", fn |-> "", method |-> "", loc |-> NoLocation]

CallLine(async, new, type, fn, method, loc) ==
    [kind |-> "call", text |-> "", async |-> async, new |-> new,
     type |-> type, fn |-> fn, method |-> method, loc |-> loc]

BareLine(loc) ==
    [kind |-> "bare", text |-> "", async |-> FALSE, new |-> FALSE,
     type |-> "", fn |-> "", method |-> "", loc |-> loc]

\* A StackFrame (debug.ts:385-395); a location object is a frame with no
\* function identity.
StackFrame(typeName, functionName, methodName, location, isConstructor, isAsync) ==
    [typeName |-> typeName, functionName |-> functionName,
     methodName |-> methodName, fileName |-> location.fileName,
     lineNumber |-> location.lineNumber,
     columnNumber |-> location.columnNumber,
     evalOrigin |-> location.evalOrigin,
     isConstructor |-> isConstructor, isAsync |-> isAsync]

NoLocationObject ==
    [fileName |-> "", lineNumber |-> << >>, columnNumber |-> << >>,
     evalOrigin |-> << >>]

\* The file names used, and what the path tests make of them.
PlainFile == "/a/b.js"
NodeFile == "module.js"
MochaFile == "/node_modules/mocha/lib/runner.js"
TypeScriptFile == "/src/compiler/checker.ts"

\* isRootedDiskPath(fileName), on the file names used.
isRootedDiskPath(fileName) == fileName \in {PlainFile, MochaFile, TypeScriptFile}

\* parseInt(text, 10) - 1 of an optional number.
ZeroBased(n) == IF n = << >> THEN << >> ELSE <<n[1] - 1>>

OneBased(n) == IF n = << >> THEN << >> ELSE <<n[1] + 1>>

RECURSIVE parseStackFrame(_)
RECURSIVE parseStackFrameLocation(_)

\* << >> for undefined, <<location>> otherwise.
parseStackFrameLocation(location) ==
    IF location.kind = "eval"
    THEN LET evalOrigin == parseStackFrame(location.inner[1])
         IN IF evalOrigin = << >> THEN << >>
            ELSE <<[NoLocationObject EXCEPT !.evalOrigin = evalOrigin]>>
    ELSE IF location.kind = "file"
    THEN <<[fileName |-> location.file,
            lineNumber |-> ZeroBased(location.line),
            columnNumber |-> ZeroBased(location.column),
            evalOrigin |-> << >>]>>
    ELSE << >>

\* << >> for undefined, <<frame>> otherwise.
parseStackFrame(line) ==
    IF line.kind = "text" THEN << >>
    ELSE LET parsed == parseStackFrameLocation(line.loc)
             location == IF parsed = << >> THEN NoLocationObject ELSE parsed[1]
         IN IF line.kind = "call"
            THEN <<StackFrame(line.type, line.fn, line.method, location,
                              line.new, line.async)>>
            ELSE IF parsed # << >>
                    /\ (location.evalOrigin # << >>
                        \/ (location.fileName # ""
                            /\ isRootedDiskPath(location.fileName)))
            THEN <<StackFrame("", "", "", location, FALSE, FALSE)>>
            ELSE << >>

RECURSIVE formatStackFrame(_)
RECURSIVE formatLocation(_)

formatLocation(frame) ==
    IF frame.fileName # ""
    THEN FileLocation(frame.fileName, OneBased(frame.lineNumber),
                      IF frame.lineNumber # << >>
                      THEN OneBased(frame.columnNumber) ELSE << >>)
    ELSE IF frame.evalOrigin # << >>
    THEN EvalLocation(formatStackFrame(frame.evalOrigin[1]))
    ELSE FileLocation("unknown location", << >>, << >>)

formatStackFrame(frame) ==
    IF frame.functionName # ""
    THEN CallLine(frame.isAsync, ~frame.isAsync /\ frame.isConstructor,
                  frame.typeName, frame.functionName, frame.methodName,
                  formatLocation(frame))
    ELSE BareLine(formatLocation(frame))

\* The path tests (debug.ts:561-584), on the file names used.
isMochaStackFrame(frame) == frame.fileName # "" /\ frame.fileName = MochaFile

isNodeStackFrame(frame) == frame.fileName # "" /\ frame.fileName = NodeFile

isTypeScriptStackFrame(frame) ==
    frame.fileName # "" /\ frame.fileName = TypeScriptFile

isBuiltinStackFrame(frame) ==
    frame.fileName \in {"native", "<anonymous>"} /\ frame.functionName # ""

\* filterStack.defaultRewriteFrame.
defaultRewriteFrame(frame) == frame

\* The rewriting of a parsed frame (debug.ts:411-416); no file name used
\* is a file:/// URI, so the replace leaves it as it is.
rewriteFrame(frame) ==
    IF frame.fileName # ""
       /\ frame.fileName \notin {"native", "unknown location", "<anonymous>"}
    THEN defaultRewriteFrame(frame)
    ELSE frame

(***************************************************************************)
(* filterStack. The options: stackTraceLimit is << >> for the default      *)
(* (Infinity) or <<n>>; exclude tells whether the caller's predicate is    *)
(* given, and the predicate used excludes the frames of function "foo".    *)
(***************************************************************************)
MaxLines == 4

StackTraceLimits == {<< >>, <<1>>, <<2>>}

ExcludeFlags ==
    {{}, {"exclude"}, {"node", "mocha", "typescript", "builtin"}}

FilterStackOptions ==
    {[stackTraceLimit |-> limit,
      exclude |-> "exclude" \in flags,
      excludeNode |-> "node" \in flags,
      excludeMocha |-> "mocha" \in flags,
      excludeTypeScript |-> "typescript" \in flags,
      excludeBuiltin |-> "builtin" \in flags] :
        limit \in StackTraceLimits, flags \in ExcludeFlags}

\* The caller's exclude predicate.
exclude(frame) == frame.functionName = "foo"

\* The condition of debug.ts:417-422.
isExcluded_pastLimit(frameCount, frame, o) ==
    \/ (o.stackTraceLimit # << >> /\ frameCount > o.stackTraceLimit[1])
    \/ (o.excludeNode /\ isNodeStackFrame(frame))
    \/ (o.excludeMocha /\ isMochaStackFrame(frame))
    \/ (o.excludeTypeScript /\ isTypeScriptStackFrame(frame))
    \/ (o.excludeBuiltin /\ isBuiltinStackFrame(frame))
    \/ (o.exclude /\ exclude(frame))

isExcluded(frameCount, frame, o) ==
    \/ (o.stackTraceLimit # << >> /\ frameCount >= o.stackTraceLimit[1])
    \/ (o.excludeNode /\ isNodeStackFrame(frame))
    \/ (o.excludeMocha /\ isMochaStackFrame(frame))
    \/ (o.excludeTypeScript /\ isTypeScriptStackFrame(frame))
    \/ (o.excludeBuiltin /\ isBuiltinStackFrame(frame))
    \/ (o.exclude /\ exclude(frame))

\* `    ... skipping ${n} frame${n > 1 ? "s" : ""} ...`
skippingLine(n) ==
    TextLine("    ... skipping " \o ToString(n) \o " frame"
             \o (IF n > 1 THEN "s" ELSE "") \o " ...")

\* The locals of filterStack before the loop (debug.ts:403-407), with the
\* record of where each output line stems from, of how each input line was
\* classified and of the value of frameCount when the loop reached it.
loopStart ==
    [filtered |-> << >>, frameCount |-> 0, lastFrameWasExcluded |-> FALSE,
     excludedFrameCount |-> 0, lastExcludedFrame |-> << >>,
     origins |-> << >>, lastExcludedOrigin |-> 0, classes |-> << >>,
     counts |-> << >>]

\* filtered.push(line) for a line that stems from input line origin.
push(st, line, origin) ==
    [st EXCEPT !.filtered = Append(@, line), !.origins = Append(@, origin)]

\* An excluded frame (debug.ts:423-428, then 437-440 for the first of a run).
onExcludedFrame_countsFirst(st, frame, i) ==
    LET seen == [st EXCEPT !.classes = Append(@, "excluded")]
    IN IF st.lastFrameWasExcluded
       THEN [seen EXCEPT !.excludedFrameCount = @ + 1,
                         !.lastExcludedFrame = <<formatStackFrame(frame)>>,
                         !.lastExcludedOrigin = i]
       ELSE push([seen EXCEPT !.lastFrameWasExcluded = TRUE,
                              !.excludedFrameCount = @ + 1,
                              !.frameCount = @ + 1],
                 formatStackFrame(frame), i)

onExcludedFrame(st, frame, i) ==
    LET seen == [st EXCEPT !.classes = Append(@, "excluded")]
    IN IF st.lastFrameWasExcluded
       THEN [seen EXCEPT !.excludedFrameCount = @ + 1,
                         !.lastExcludedFrame = <<formatStackFrame(frame)>>,
                         !.lastExcludedOrigin = i]
       ELSE push([seen EXCEPT !.lastFrameWasExcluded = TRUE,
                              !.frameCount = @ + 1],
                 formatStackFrame(frame), i)

\* A frame that is not excluded (debug.ts:430-440).
onKeptFrame(st, frame, i) ==
    LET seen == [st EXCEPT !.classes = Append(@, "kept")]
        summed == IF st.excludedFrameCount > 0
                  THEN push(seen, skippingLine(st.excludedFrameCount), 0)
                  ELSE seen
    IN push([summed EXCEPT !.excludedFrameCount = 0,
                           !.lastFrameWasExcluded = FALSE,
                           !.frameCount = @ + 1],
            formatStackFrame(frame), i)

\* One iteration of the loop (debug.ts:408-441), for input line i.
loopBody(st, line, i, o) ==
    LET parsed == parseStackFrame(line)
        frame == rewriteFrame(parsed[1])
        at == [st EXCEPT !.counts = Append(@, st.frameCount)]
    IN IF parsed = << >>
       THEN push([at EXCEPT !.classes = Append(@, "text")], line, i)
       ELSE IF isExcluded(st.frameCount, frame, o)
       THEN onExcludedFrame(at, frame, i)
       ELSE onKeptFrame(at, frame, i)

\* After the loop (debug.ts:442-450).
afterLoop_keepsCount(st) ==
    IF st.excludedFrameCount > 0
    THEN LET n == st.excludedFrameCount
             summed == IF n > 0 THEN push(st, skippingLine(n), 0) ELSE st
         IN IF st.lastExcludedFrame # << >>
            THEN push([summed EXCEPT !.excludedFrameCount = n],
                      st.lastExcludedFrame[1], st.lastExcludedOrigin)
            ELSE [summed EXCEPT !.excludedFrameCount = n]
    ELSE st

afterLoop(st) ==
    IF st.excludedFrameCount > 0
    THEN LET n == st.excludedFrameCount - 1
             summed == IF n > 0 THEN push(st, skippingLine(n), 0) ELSE st
         IN IF st.lastExcludedFrame # << >>
            THEN push([summed EXCEPT !.excludedFrameCount = n],
                      st.lastExcludedFrame[1], st.lastExcludedOrigin)
            ELSE [summed EXCEPT !.excludedFrameCount = n]
    ELSE st

RECURSIVE filterLoop(_, _, _, _)
filterLoop(lines, i, st, o) ==
    IF i > Len(lines) THEN st
    ELSE filterLoop(lines, i + 1, loopBody(st, lines[i], i, o), o)

\* filterStack(lines.join("\n"), o): the locals when it returns; the
\* result is the field filtered, joined.
filterStack(lines, o) == afterLoop(filterLoop(lines, 1, loopStart, o))

(***************************************************************************)
(* SpecStack: filterStack applied to a bounded trace, and then once more   *)
(* to its own result under the same options.                               *)
(***************************************************************************)
ErrorLine == TextLine("Error: boom")
PlainLine ==
    CallLine(FALSE, FALSE, "Object", "foo", "", FileLocation(PlainFile, <<10>>, <<5>>))
NodeLine ==
    CallLine(FALSE, FALSE, "Module", "_compile", "", FileLocation(NodeFile, <<652>>, <<30>>))
MochaLine ==
    CallLine(FALSE, FALSE, "Context", "it", "as run", FileLocation(MochaFile, <<7>>, << >>))
TypeScriptLine ==
    CallLine(TRUE, TRUE, "", "checkSourceFile", "", FileLocation(TypeScriptFile, <<1>>, <<1>>))
BuiltinLine ==
    CallLine(FALSE, FALSE, "Array", "map", "", FileLocation("native", << >>, << >>))
\* "    at  (native)": a call position with an empty function name.
UnnamedLine ==
    CallLine(FALSE, FALSE, "", "", "", FileLocation("native", << >>, << >>))
\* "    at eval (eval at foo (/a/b.js:1:2), <anonymous>:1:1)"
EvalLine ==
    CallLine(FALSE, FALSE, "", "eval", "",
             EvalLocation(TextLine("foo (/a/b.js:1:2), <anonymous>:1:1")))

StackLines ==
    {ErrorLine, PlainLine, NodeLine, MochaLine, TypeScriptLine, BuiltinLine,
     UnnamedLine}

Stacks == UNION {[1..n -> StackLines] : n \in 1..MaxLines}

InitStack ==
    /\ stack \in Stacks
    /\ stackOptions \in FilterStackOptions
    /\ filtered = NotCalled
    /\ refiltered = NotCalled
    /\ origins = << >>
    /\ classes = << >>
    /\ frameCounts = << >>
    /\ DebugIdle
    /\ EnumIdle
    /\ FrameIdle
    /\ pc = "stack"

\* filterStack(stack, stackOptions).
FilterStack ==
    /\ pc = "stack"
    /\ LET run == filterStack(stack, stackOptions) IN
        /\ filtered' = run.filtered
        /\ origins' = run.origins
        /\ classes' = run.classes
        /\ frameCounts' = run.counts
    /\ pc' = "filtered"
    /\ UNCHANGED <<debugVars, enumVars, frameVars, stack, stackOptions,
                   refiltered>>

\* filterStack(filtered, stackOptions), on the result of the first call.
FilterAgain ==
    /\ pc = "filtered"
    /\ refiltered' = filterStack(filtered, stackOptions).filtered
    /\ pc' = "refiltered"
    /\ UNCHANGED <<debugVars, enumVars, frameVars, stack, stackOptions,
                   filtered, origins, classes, frameCounts>>

NextStack == FilterStack \/ FilterAgain

SpecStack == InitStack /\ [][NextStack]_vars

(***************************************************************************)
(* Claims about filterStack, under SpecStack.                              *)
(***************************************************************************)
Filtered == pc \in {"filtered", "refiltered"}

\* The line filterStack writes for the frame of input line k.
Reformatted(k) == formatStackFrame(rewriteFrame(parseStackFrame(stack[k])[1]))

\* Input lines i .. i+n-1 are a run of n >= 2 excluded frames, the frame
\* before the run (if there is one) was kept, and line i+n is a kept frame.
RunThenKept(i, n) ==
    /\ n >= 2
    /\ i + n <= Len(stack)
    /\ \A k \in i..(i + n - 1) : classes[k] = "excluded"
    /\ classes[i + n] = "kept"
    /\ LET before == {k \in 1..(i - 1) : classes[k] # "text"}
       IN before # {} =>
            classes[CHOOSE k \in before : \A m \in before : m <= k] = "kept"

\* filtered holds the three lines in a row, stemming from the input lines
\* from (0: from none).
EmitsInARow(lines, from) ==
    \E j \in 1..(Len(filtered) - 2) :
        /\ SubSeq(filtered, j, j + 2) = lines
        /\ SubSeq(origins, j, j + 2) = from

\* C1 as stated: such a run comes out as the summary line for n-1 frames,
\* then the last excluded frame of the run, then the kept frame.
C1_SummaryThenLastExcluded ==
    Filtered =>
        \A i \in 1..Len(stack), n \in 2..Len(stack) :
            RunThenKept(i, n) =>
                EmitsInARow(<<skippingLine(n - 1), Reformatted(i + n - 1),
                              Reformatted(i + n)>>,
                            <<0, i + n - 1, i + n>>)

\* C1, amended: such a run comes out as its first excluded frame, then the
\* summary line for n-1 frames, then the kept frame; the last excluded
\* frame of the run is not written.
C1_FirstExcludedThenSummary ==
    Filtered =>
        \A i \in 1..Len(stack), n \in 2..Len(stack) :
            RunThenKept(i, n) =>
                /\ EmitsInARow(<<Reformatted(i), skippingLine(n - 1),
                                 Reformatted(i + n)>>,
                               <<i, 0, i + n>>)
                /\ \A j \in 1..Len(origins) :
                        origins[j] \notin (i + 1)..(i + n - 1)

C1_Witness ==
    /\ Filtered
    /\ Len(stack) = 4
    /\ RunThenKept(1, 3)
    /\ filtered = <<Reformatted(1), skippingLine(2), Reformatted(4)>>
    /\ skippingLine(2).text = "    ... skipping 2 frames ..."

\* C9: filterStack is idempotent: filtering its own result again, under
\* the same options, changes nothing.
C9_Idempotent == pc = "refiltered" => refiltered = filtered

\* C10: the output lines that stem from input lines are in the order of
\* their input lines.
C10_NeverReorders ==
    Filtered =>
        \A j, k \in 1..Len(origins) :
            (j < k /\ origins[j] # 0 /\ origins[k] # 0)
                => origins[j] < origins[k]

\* What one call of filterStack leaves behind: its output, and per output
\* line the input line it stems from, per input line its classification.
FirstCall == [filtered |-> filtered, origins |-> origins, classes |-> classes]

\* The number of lines of a trace that parse as frames.
InputFrames(lines) ==
    Cardinality({k \in 1..Len(lines) : parseStackFrame(lines[k]) # << >>})

\* The number N a line reading "    ... skipping N frame(s) ..." states,
\* 0 for any other line.
skippingCount(line, most) ==
    IF \E n \in 1..most : line = skippingLine(n)
    THEN CHOOSE n \in 1..most : line = skippingLine(n)
    ELSE 0

RECURSIVE SumOver(_, _, _)
SumOver(lines, js, most) ==
    IF js = {} THEN 0
    ELSE LET j == CHOOSE x \in js : TRUE
         IN skippingCount(lines[j], most) + SumOver(lines, js \ {j}, most)

\* The output lines a call wrote for frames of its input.
EmittedFor(run) ==
    {j \in 1..Len(run.filtered) :
        run.origins[j] # 0 /\ run.classes[run.origins[j]] # "text"}

\* The summary lines a call added.
SummariesOf(run) == {j \in 1..Len(run.filtered) : run.origins[j] = 0}

Accounted(lines, run) ==
    Cardinality(EmittedFor(run))
        + SumOver(run.filtered, SummariesOf(run), Len(lines))
    = InputFrames(lines)

\* C13 (as amended): the number of output lines written for input frames
\* plus the sum of the counts of the summary lines the call added equals
\* the number of input lines that parse as frames, on a fresh trace and on
\* the output of an earlier call alike.
C13_EveryFrameAccounted ==
    /\ Filtered => Accounted(stack, FirstCall)
    /\ pc = "refiltered" =>
          LET again == filterStack(filtered, stackOptions)
          IN again.filtered = refiltered /\ Accounted(filtered, again)

C13_Witness ==
    /\ pc = "refiltered"
    /\ Cardinality(EmittedFor(FirstCall)) >= 2
    /\ SumOver(filtered, SummariesOf(FirstCall), Len(stack)) >= 1
    /\ \E j \in 1..Len(filtered) : origins[j] # 0 /\ classes[origins[j]] = "text"

\* C13 (as stated): the number of frame lines in the output plus the sum of
\* the counts N of all "... skipping N frame(s) ..." lines in the output
\* equals the number of input lines that parse as frames; here for the
\* call whose input is the output of an earlier call.
C13_CountsReadOffTheOutput ==
    pc = "refiltered" =>
        InputFrames(refiltered)
            + SumOver(refiltered, 1..Len(refiltered), Len(stack))
        = InputFrames(filtered)

\* C15: with a finite stackTraceLimit L, every frame the loop reaches with
\* frameCount >= L is classified as excluded, and the output holds at most
\* L + 2 lines written for frames.
C15_LimitCapsFrames ==
    (Filtered /\ stackOptions.stackTraceLimit # << >>) =>
        LET L == stackOptions.stackTraceLimit[1]
        IN /\ \A k \in 1..Len(stack) :
                (classes[k] # "text" /\ frameCounts[k] >= L)
                    => classes[k] = "excluded"
           /\ Cardinality(EmittedFor(FirstCall)) <= L + 2

C15_Witness ==
    /\ Filtered
    /\ stackOptions.stackTraceLimit # << >>
    /\ Cardinality(EmittedFor(FirstCall)) = stackOptions.stackTraceLimit[1] + 2
    /\ InputFrames(stack) > stackOptions.stackTraceLimit[1] + 2

(***************************************************************************)
(* SpecFrame: parseStackFrame applied to one line, then formatStackFrame   *)
(* applied to the frame it returned. The lines are the call positions of   *)
(* every combination of the optional parts over every location below, the  *)
(* bare locations, and a line that is no frame.                            *)
(***************************************************************************)
FrameLocations ==
    {FileLocation(PlainFile, << >>, << >>),
     FileLocation(PlainFile, <<10>>, << >>),
     FileLocation(PlainFile, <<10>>, <<5>>),
     FileLocation("native", << >>, << >>),
     OtherLocation("/a/b.js:x"),
     EvalLocation(BareLine(FileLocation(PlainFile, <<1>>, <<2>>))),
     EvalLine.loc}

FrameLines ==
    {CallLine(async, new, type, fn, method, loc) :
        async \in BOOLEAN, new \in BOOLEAN, type \in {"", "Object"},
        fn \in {"", "foo"}, method \in {"", "bar"}, loc \in FrameLocations}
    \cup {BareLine(loc) : loc \in FrameLocations}
    \cup {ErrorLine}

InitFrame ==
    /\ frameLine \in FrameLines
    /\ parsedFrame = NotCalled
    /\ serialized = NotCalled
    /\ DebugIdle
    /\ EnumIdle
    /\ StackIdle
    /\ pc = "frame"

\* parseStackFrame(frameLine).
ParseStackFrame ==
    /\ pc = "frame"
    /\ parsedFrame' = parseStackFrame(frameLine)
    /\ pc' = "parsed"
    /\ UNCHANGED <<debugVars, enumVars, stackVars, frameLine, serialized>>

\* formatStackFrame(frame), for the frame parseStackFrame returned.
FormatStackFrame ==
    /\ pc = "parsed"
    /\ parsedFrame # << >>
    /\ serialized' = formatStackFrame(parsedFrame[1])
    /\ pc' = "formatted"
    /\ UNCHANGED <<debugVars, enumVars, stackVars, frameLine, parsedFrame>>

NextFrame == ParseStackFrame \/ FormatStackFrame

SpecFrame == InitFrame /\ [][NextFrame]_vars

\* C12: for every line parseStackFrame accepts, formatStackFrame of the
\* parsed frame is the line again, whatever optional parts the line has;
\* the line and column numbers of the frame are one less than those of the
\* line.
C12_ParseThenSerializeIsIdentity ==
    pc = "formatted" =>
        /\ serialized = frameLine
        /\ (frameLine.loc.kind = "file" =>
              /\ parsedFrame[1].lineNumber = ZeroBased(frameLine.loc.line)
              /\ parsedFrame[1].columnNumber = ZeroBased(frameLine.loc.column))

====
